---------------------------- MODULE Spec2Model ----------------------------
(***************************************************************************)
(* Pressure-Trend-Calculator: a model of determine_trend and               *)
(* calculate_pressure_trend (src/program.py).                              *)
(*                                                                         *)
(* Numbers.  The program computes with floats; the model computes the      *)
(* same expressions exactly, in decimal fixed point:                       *)
(*   - a reading (an argument of either function) is an integer count of   *)
(*     1/10^4 of its unit (29.92 inHg is 299200);                          *)
(*   - an inHg value is a Num counting 1/10^10 inHg;                       *)
(*   - a millibar value is a Num counting 1/10^16 mb;                      *)
(*   - a value rounded to one decimal is an integer count of tenths.       *)
(* The returned values of the model agree with those of the Python program *)
(* on every input the model explores; the readings are spaced so that no   *)
(* step between two of them is exactly the 0.01 threshold, where the       *)
(* binary float difference may fall on either side.                        *)
(* A Num is a sequence of NumLimbs limbs, least significant first, in      *)
(* base 10^3: the limbs below the top one are in 0..Base-1 and the top     *)
(* one is any integer, so the Num's value is the sum of limb i times       *)
(* Base^(i-1) and a negative value has a negative top limb.                *)
(***************************************************************************)
EXTENDS Integers, Sequences, FiniteSets, TLC

\* pc: where main()'s loop is; fn, args, ret: the function called last, its
\* arguments and what it returned; locals: its local variables at the return
VARIABLES pc, fn, args, ret, locals

vars == <<pc, fn, args, ret, locals>>

-----------------------------------------------------------------------------
(* Bounds of the explored inputs. *)

\* readings range over base + k * step for k in -MaxStep..MaxStep
MaxStep == 2
\* limbs of a Num
NumLimbs == 7

-----------------------------------------------------------------------------
(* Exact decimal arithmetic. *)

Base == 10 ^ 3

Abs(n) == IF n < 0 THEN -n ELSE n

RECURSIVE Carry(_, _, _)
Carry(x, i, c) ==
    IF i = Len(x)
    THEN <<x[i] + c>>
    ELSE <<(x[i] + c) % Base>> \o Carry(x, i + 1, (x[i] + c) \div Base)

\* the Num of the same value whose lower limbs are in 0..Base-1
Norm(x) == Carry(x, 1, 0)

FromInt(n) == Norm([i \in 1..NumLimbs |-> IF i = 1 THEN n ELSE 0])

\* x * c for a small integer c
Scale(x, c) == Norm([i \in 1..NumLimbs |-> x[i] * c])

\* x - y
Sub(x, y) == Norm([i \in 1..NumLimbs |-> x[i] - y[i]])

\* -x
Neg(x) == Norm([i \in 1..NumLimbs |-> -x[i]])

\* -1, 0 or 1
Sign(x) ==
    IF x[NumLimbs] < 0 THEN -1
    ELSE IF \A i \in 1..NumLimbs : x[i] = 0 THEN 0
    ELSE 1

Gt(x, y) == Sign(Sub(x, y)) = 1

Lt(x, y) == Sign(Sub(x, y)) = -1

\* the integer made of limbs i and above: floor(x / Base^(i-1))
RECURSIVE Upper(_, _)
Upper(x, i) == IF i > Len(x) THEN 0 ELSE x[i] + Base * Upper(x, i + 1)

-----------------------------------------------------------------------------
(* Python built-ins. *)

\* round(x, 1) of a millibar Num, in tenths: the nearest tenth, a tie going
\* to the even one.  A tenth of a millibar is Base^5 at the millibar scale.
PyRound1(x) ==
    LET q == Upper(x, 6)
        above == \/ x[5] > Base \div 2
                 \/ x[5] = Base \div 2 /\ \E i \in 1..4 : x[i] # 0
        tie == x[5] = Base \div 2 /\ \A i \in 1..4 : x[i] = 0
    IN  IF above \/ (tie /\ q % 2 = 1) THEN q + 1 ELSE q

\* int(n / d), d > 0: truncation toward zero
PyInt(n, d) == IF n < 0 THEN -((-n) \div d) ELSE n \div d

\* (mutant) the remainder with the sign of a, as C's % gives
PyMod_rem(a, n) == IF a < 0 THEN -((-a) % n) ELSE a % n

\* a % n, n > 0: the result has the sign of n
PyMod(a, n) == a % n

-----------------------------------------------------------------------------
(* Constants of calculate_pressure_trend and determine_trend. *)

\* 33.8639, in 1/10^4
INHG_TO_MB == 338639
\* 0.02953, in 1/10^6
HPA_TO_INHG == 29530
\* 0.2953, in 1/10^6
KPA_TO_INHG == 295300
\* threshold=0.01, in 1/10^4 inHg
DEFAULT_THRESHOLD == 100

\* a reading that is in inHg already, at the inHg scale (the same value)
InHg(reading) == Scale(Scale(FromInt(reading), Base), Base)

\* reading * factor, at the inHg scale
Times(reading, factor) == Scale(FromInt(reading), factor)

\* x * INHG_TO_MB, at the millibar scale
ToMb(x) == Scale(Scale(x, INHG_TO_MB), 10 ^ 2)

-----------------------------------------------------------------------------
(* determine_trend *)

\* (mutant) the comparisons include the threshold itself
determine_trend_inclusive(pressure1, pressure2, threshold) ==
    LET diff == Sub(pressure2, pressure1)
    IN  IF ~Lt(diff, threshold) THEN "Rising"
        ELSE IF ~Gt(diff, Neg(threshold)) THEN "Falling"
        ELSE "Steady"

determine_trend(pressure1, pressure2, threshold) ==
    LET diff == Sub(pressure2, pressure1)
    IN  IF Gt(diff, threshold) THEN "Rising"
        ELSE IF Lt(diff, Neg(threshold)) THEN "Falling"
        ELSE "Steady"

-----------------------------------------------------------------------------
(* calculate_pressure_trend, step by step *)

current_pressure_inhg(current_pressure, unit) ==
    IF unit = "hPa" THEN Times(current_pressure, HPA_TO_INHG)
    ELSE IF unit = "kPa" THEN Times(current_pressure, KPA_TO_INHG)
    ELSE IF unit = "custom" THEN InHg(current_pressure)
    ELSE InHg(current_pressure)

past_pressures_inhg(past_pressures, unit) ==
    IF unit = "hPa"
    THEN [i \in 1..3 |-> Times(past_pressures[i], HPA_TO_INHG)]
    ELSE IF unit = "kPa"
    THEN [i \in 1..3 |-> Times(past_pressures[i], KPA_TO_INHG)]
    ELSE IF unit = "custom"
    THEN [i \in 1..3 |-> Times(past_pressures[i], HPA_TO_INHG)]
    ELSE [i \in 1..3 |-> InHg(past_pressures[i])]

\* pressure_change_mb: round(current_pressure_mb - pressure_3h_ago_mb, 1), in tenths
pressure_change_mb(current_inhg, past_inhg) ==
    PyRound1(Sub(ToMb(current_inhg), ToMb(past_inhg[3])))

\* (mutant) the overall direction needs more than 0.3 mb (about 0.01 inHg)
overall_trend_thresholded(change_mb) ==
    IF change_mb > 3 THEN "Rising"
    ELSE IF change_mb < -3 THEN "Falling"
    ELSE "Steady"

overall_trend(change_mb) ==
    IF change_mb > 0 THEN "Rising"
    ELSE IF change_mb < 0 THEN "Falling"
    ELSE "Steady"

\* (mutant) abs() left out
trend_value_signed(change_mb) == PyInt(change_mb * 10, 10)

\* int(abs(pressure_change_mb) * 10); change_mb is in tenths
trend_value(change_mb) == PyInt(Abs(change_mb) * 10, 10)

\* round(current_pressure_mb, 1), in tenths
current_pressure_mb_rounded(current_inhg) == PyRound1(ToMb(current_inhg))

\* int(current_pressure_mb_rounded * 10) % 1000; mb_rounded is in tenths
station_model_pressure(mb_rounded) == PyMod(PyInt(mb_rounded * 10, 10), 1000)

\* (mutant) the kPa branch shows the millibar value undivided
display_current_pressure_undivided(current_inhg, mb_rounded, unit) ==
    IF unit = "hPa" \/ unit = "kPa" THEN [n |-> mb_rounded, d |-> 10]
    ELSE [n |-> Upper(current_inhg, 3), d |-> 10 ^ 4]

\* The display values are kept as fractions n / d of the display unit.  An
\* inHg value shown as it is came from a reading, so it is a whole number
\* of 1/10^4: its limbs 3 and above.
display_current_pressure(current_inhg, mb_rounded, unit) ==
    IF unit = "hPa" THEN [n |-> mb_rounded, d |-> 10]
    ELSE IF unit = "kPa" THEN [n |-> mb_rounded, d |-> 10 * 10]
    ELSE IF unit = "custom" THEN [n |-> Upper(current_inhg, 3), d |-> 10 ^ 4]
    ELSE [n |-> Upper(current_inhg, 3), d |-> 10 ^ 4]

display_pressure_change(change_mb, unit) ==
    IF unit = "hPa" THEN [n |-> change_mb, d |-> 10]
    ELSE IF unit = "kPa" THEN [n |-> change_mb, d |-> 10 * 10]
    ELSE IF unit = "custom" THEN [n |-> change_mb, d |-> 10]
    ELSE [n |-> change_mb * 10 ^ 3, d |-> INHG_TO_MB]

unit_label(unit) ==
    IF unit = "hPa" THEN "hPa"
    ELSE IF unit = "kPa" THEN "kPa"
    ELSE IF unit = "custom" THEN "hPa (change), inHg (current)"
    ELSE "inHg"

trend_3h_to_2h(past_inhg) ==
    determine_trend(past_inhg[3], past_inhg[2], InHg(DEFAULT_THRESHOLD))

trend_2h_to_1h(past_inhg) ==
    determine_trend(past_inhg[2], past_inhg[1], InHg(DEFAULT_THRESHOLD))

trend_1h_to_now(current_inhg, past_inhg) ==
    determine_trend(past_inhg[1], current_inhg, InHg(DEFAULT_THRESHOLD))

\* (mutant) a Rising/Falling disagreement keeps the earlier segment
first_period_trend_earlier(t32, t21, past_inhg) ==
    IF t32 = "Steady" THEN t21 ELSE t32

\* (mutant) a Rising/Falling disagreement keeps the later segment
first_period_trend_later(t32, t21, past_inhg) ==
    IF t21 = "Steady" THEN t32 ELSE t21

\* t32 and t21 are trend_3h_to_2h and trend_2h_to_1h
first_period_trend(t32, t21, past_inhg) ==
    IF t32 = t21 THEN t32
    ELSE IF t32 = "Steady" /\ t21 # "Steady" THEN t21
    ELSE IF t21 = "Steady" /\ t32 # "Steady" THEN t32
    ELSE determine_trend(past_inhg[3], past_inhg[1], InHg(DEFAULT_THRESHOLD))

second_period_trend(t1now) == t1now

\* (mutant) the two periods are named in the wrong order
tendency_description_swapped(first, second) == second \o " then " \o first

tendency_description(first, second) == first \o " then " \o second

\* (mutant) the last branch of the cascade is missing
tendency_symbol_short(first, second) ==
    IF first = "Rising" /\ second = "Falling" THEN "+/"
    ELSE IF first = "Falling" /\ second = "Rising" THEN "-+"
    ELSE IF first = "Rising" /\ second = "Steady" THEN "+="
    ELSE IF first = "Falling" /\ second = "Steady" THEN "-="
    ELSE IF first = "Rising" /\ second = "Rising" THEN "+"
    ELSE IF first = "Falling" /\ second = "Falling" THEN "-"
    ELSE IF first = "Steady" /\ second = "Rising" THEN "=+"
    ELSE IF first = "Steady" /\ second = "Falling" THEN "=-"
    ELSE ""

tendency_symbol(first, second) ==
    IF first = "Rising" /\ second = "Falling" THEN "+/"
    ELSE IF first = "Falling" /\ second = "Rising" THEN "-+"
    ELSE IF first = "Rising" /\ second = "Steady" THEN "+="
    ELSE IF first = "Falling" /\ second = "Steady" THEN "-="
    ELSE IF first = "Rising" /\ second = "Rising" THEN "+"
    ELSE IF first = "Falling" /\ second = "Falling" THEN "-"
    ELSE IF first = "Steady" /\ second = "Rising" THEN "=+"
    ELSE IF first = "Steady" /\ second = "Falling" THEN "=-"
    ELSE IF first = "Steady" /\ second = "Steady" THEN "="
    ELSE ""

\* the function's local variables at its return statement
calculate_pressure_trend_locals(current_pressure, past_pressures, unit) ==
    LET cur == current_pressure_inhg(current_pressure, unit)
        past == past_pressures_inhg(past_pressures, unit)
        t32 == trend_3h_to_2h(past)
        t21 == trend_2h_to_1h(past)
        t1now == trend_1h_to_now(cur, past)
        change == pressure_change_mb(cur, past)
        rounded == current_pressure_mb_rounded(cur)
    IN  [current_pressure_inhg |-> cur,
         past_pressures_inhg |-> past,
         pressure_change_mb |-> change,
         current_pressure_mb_rounded |-> rounded,
         trend_3h_to_2h |-> t32,
         trend_2h_to_1h |-> t21,
         trend_1h_to_now |-> t1now,
         first_period_trend |-> first_period_trend(t32, t21, past),
         second_period_trend |-> second_period_trend(t1now)]

\* the returned dict, from the locals l
calculate_pressure_trend(l, unit) ==
    [current_pressure_display |->
         display_current_pressure(l.current_pressure_inhg,
                                  l.current_pressure_mb_rounded, unit),
     current_pressure_mb |-> l.current_pressure_mb_rounded,
     station_model_pressure |-> station_model_pressure(l.current_pressure_mb_rounded),
     pressure_change_display |-> display_pressure_change(l.pressure_change_mb, unit),
     pressure_change_mb |-> l.pressure_change_mb,
     trend_value |-> trend_value(l.pressure_change_mb),
     overall_trend |-> overall_trend(l.pressure_change_mb),
     tendency_description |->
         tendency_description(l.first_period_trend, l.second_period_trend),
     tendency_symbol |-> tendency_symbol(l.first_period_trend, l.second_period_trend),
     unit |-> unit,
     unit_label |-> unit_label(unit)]

-----------------------------------------------------------------------------
(* The callers: main()'s loop and direct calls of the two functions. *)

Units == {"inHg", "hPa", "kPa", "custom"}

\* a unit string calculate_pressure_trend does not know
UnknownUnit == "mmHg"

\* a typical reading in each unit, in 1/10^4: 30.807 inHg, 1043.249 hPa,
\* 104.3249 kPa, 782.5 mmHg
BaseReading(unit) ==
    CASE unit = "inHg" -> 308070
      [] unit = "hPa" -> 10432490
      [] unit = "kPa" -> 1043249
      [] OTHER -> 7825000

\* the spacing of the readings: 0.006 inHg, 0.2 hPa, 0.02 kPa, 0.006 mmHg
StepReading(unit) ==
    CASE unit = "inHg" -> 60
      [] unit = "hPa" -> 2000
      [] unit = "kPa" -> 200
      [] OTHER -> 60

Readings(unit) ==
    {BaseReading(unit) + k * StepReading(unit) : k \in -MaxStep..MaxStep}

\* with unit "custom" the current reading is in inHg and the past ones in hPa;
\* the current reading may also be zero or negative
CurrentReadings(unit) ==
    LET u == IF unit = "custom" THEN "inHg" ELSE unit
    IN  Readings(u) \cup {0, -BaseReading(u)}

PastReadings(unit) == Readings(IF unit = "custom" THEN "hPa" ELSE unit)

\* arguments of a direct determine_trend call: multiples of 0.5
TrendReadings == {k * 5000 : k \in -MaxStep..MaxStep}

TrendThresholds == {k * 5000 : k \in 1..MaxStep} \cup {DEFAULT_THRESHOLD}

\* args, ret and locals between two calls
NoValue == [none |-> TRUE]

Init ==
    /\ pc = "prompt"
    /\ fn = "none"
    /\ args = NoValue
    /\ ret = NoValue
    /\ locals = NoValue

DetermineTrend ==
    /\ pc = "prompt"
    /\ \E p1 \in TrendReadings, p2 \in TrendReadings, t \in TrendThresholds :
          /\ args' = [pressure1 |-> p1, pressure2 |-> p2, threshold |-> t]
          /\ ret' = [trend |-> determine_trend(InHg(p1), InHg(p2), InHg(t))]
          /\ locals' = [diff |-> Sub(InHg(p2), InHg(p1))]
    /\ fn' = "determine_trend"
    /\ pc' = "returned"

CalculatePressureTrend ==
    /\ pc = "prompt"
    /\ \E unit \in Units \cup {UnknownUnit} :
          \E current \in CurrentReadings(unit) :
             \E p1h \in PastReadings(unit), p2h \in PastReadings(unit),
                p3h \in PastReadings(unit) :
                /\ args' = [current_pressure |-> current,
                            past_pressures |-> <<p1h, p2h, p3h>>,
                            unit |-> unit]
                /\ locals' =
                       calculate_pressure_trend_locals(current, <<p1h, p2h, p3h>>, unit)
                /\ ret' = calculate_pressure_trend(locals', unit)
    /\ fn' = "calculate_pressure_trend"
    /\ pc' = "returned"

\* "Would you like to calculate another trend?": the loop starts over
Continue ==
    /\ pc = "returned"
    /\ pc' = "prompt"
    /\ fn' = "none"
    /\ args' = NoValue
    /\ ret' = NoValue
    /\ locals' = NoValue

Next == DetermineTrend \/ CalculatePressureTrend \/ Continue

Spec == Init /\ [][Next]_vars

-----------------------------------------------------------------------------
(* The state the properties read. *)

\* calculate_pressure_trend has returned: args are its arguments, ret its dict
Calculated == pc = "returned" /\ fn = "calculate_pressure_trend"

\* determine_trend has returned: args are its arguments, ret.trend its string
Classified == pc = "returned" /\ fn = "determine_trend"

\* the inHg-normalized past readings of the call
PastInHg == locals.past_pressures_inhg

\* the three segment classifications of the call
Seg3to2 == locals.trend_3h_to_2h

Seg2to1 == locals.trend_2h_to_1h

Seg1toNow == locals.trend_1h_to_now

\* The classification of a step of d (in 1/10^4 of a unit that is `factor`
\* millionths of an inHg) against 0.01 inHg, in integers:
\* d * factor / 10^6 > DEFAULT_THRESHOLD exactly when d exceeds the quotient.
StepTrend(d, factor) ==
    LET least == (DEFAULT_THRESHOLD * 10 ^ 6) \div factor
    IN  IF d > least THEN "Rising" ELSE IF -d > least THEN "Falling" ELSE "Steady"

\* the factor of the past readings' unit, and of the current reading's
PastFactor ==
    CASE args.unit \in {"hPa", "custom"} -> HPA_TO_INHG
      [] args.unit = "kPa" -> KPA_TO_INHG
      [] OTHER -> 10 ^ 6

CurrentFactor ==
    CASE args.unit = "hPa" -> HPA_TO_INHG
      [] args.unit = "kPa" -> KPA_TO_INHG
      [] OTHER -> 10 ^ 6

\* |current_pressure_display - current_pressure|, in 1/10^4 of the unit
RoundTripError ==
    Abs(ret.current_pressure_display.n * (10 ^ 4 \div ret.current_pressure_display.d)
            - args.current_pressure)

\* the round-trip tolerance of the unit, in 1/10^4: 0.05 hPa, 0.005 kPa,
\* 0.0005 inHg
Tolerance ==
    CASE args.unit = "hPa" -> 500
      [] args.unit = "kPa" -> 50
      [] OTHER -> 5

\* the symbol table of the station model
SymbolTable ==
    [pair \in {"Rising", "Falling", "Steady"} \X {"Rising", "Falling", "Steady"} |->
        CASE pair = <<"Rising", "Falling">> -> "+/"
          [] pair = <<"Falling", "Rising">> -> "-+"
          [] pair = <<"Rising", "Steady">> -> "+="
          [] pair = <<"Falling", "Steady">> -> "-="
          [] pair = <<"Rising", "Rising">> -> "+"
          [] pair = <<"Falling", "Falling">> -> "-"
          [] pair = <<"Steady", "Rising">> -> "=+"
          [] pair = <<"Steady", "Falling">> -> "=-"
          [] pair = <<"Steady", "Steady">> -> "="]

-----------------------------------------------------------------------------
(* Properties. *)

\* C1: for every threshold t > 0, determine_trend(p_before, p_after, t) is
\* Rising exactly when p_after - p_before > t, Falling exactly when it is
\* < -t, and Steady otherwise (so a difference of t, of -t and of 0 is Steady).
C1_DetermineTrend ==
    Classified =>
        LET d == args.pressure2 - args.pressure1
            t == args.threshold
        IN  /\ t > 0
            /\ (ret.trend = "Rising") <=> (d > t)
            /\ (ret.trend = "Falling") <=> (d < -t)
            /\ (ret.trend = "Steady") <=> (-t <= d /\ d <= t)

\* C1, its case: a difference exactly equal to the threshold is Steady
C1_Witness ==
    /\ Classified
    /\ args.pressure2 - args.pressure1 = args.threshold
    /\ ret.trend = "Steady"

\* C2: tendency_symbol is never empty and is the table's entry for the pair
\* (first_period_trend, second_period_trend).
C2_SymbolTable ==
    Calculated =>
        /\ ret.tendency_symbol # ""
        /\ <<locals.first_period_trend, locals.second_period_trend>>
               \in DOMAIN SymbolTable
        /\ ret.tendency_symbol =
               SymbolTable[<<locals.first_period_trend, locals.second_period_trend>>]

\* C2, its case: the pair the last branch of the cascade serves
C2_Witness ==
    /\ Calculated
    /\ locals.first_period_trend = "Steady"
    /\ locals.second_period_trend = "Steady"
    /\ ret.tendency_symbol = "="

\* C3: a call with a unit outside the four recognized ones is rejected, and
\* never returns a result computed as if the unit were inHg.
C3_UnknownUnitRejected ==
    (fn = "calculate_pressure_trend" /\ args.unit \notin Units) =>
        /\ pc = "rejected"
        /\ [ret EXCEPT !.unit = "inHg"] #
               calculate_pressure_trend(
                   calculate_pressure_trend_locals(args.current_pressure,
                                                   args.past_pressures, "inHg"),
                   "inHg")

\* C4: station_model_pressure is in 0..999 and is congruent modulo 1000 to
\* the current pressure in tenths of a millibar, for every current pressure.
C4_StationModelPressure ==
    Calculated =>
        /\ ret.station_model_pressure \in 0..999
        /\ (ret.current_pressure_mb - ret.station_model_pressure) % 1000 = 0

\* C4, its case: a negative current pressure
C4_Witness ==
    /\ Calculated
    /\ args.current_pressure < 0
    /\ ret.current_pressure_mb < 0
    /\ ret.station_model_pressure > 0

\* C5: trend_value is a non-negative integer, the number of tenths of a
\* millibar in |pressure_change_mb|.
C5_TrendValue ==
    Calculated =>
        /\ ret.trend_value \in Nat
        /\ ret.trend_value = Abs(ret.pressure_change_mb)

\* C5, its case: a negative change
C5_Witness ==
    /\ Calculated
    /\ ret.pressure_change_mb < 0
    /\ ret.trend_value > 0

\* C6: overall_trend is Rising exactly when the rounded change is > 0,
\* Falling exactly when it is < 0, Steady exactly when it is 0.
C6_OverallTrend ==
    Calculated =>
        /\ (ret.overall_trend = "Rising") <=> (ret.pressure_change_mb > 0)
        /\ (ret.overall_trend = "Falling") <=> (ret.pressure_change_mb < 0)
        /\ (ret.overall_trend = "Steady") <=> (ret.pressure_change_mb = 0)

\* C6, its case: the three segments are Steady and the overall trend is not
C6_Witness ==
    /\ Calculated
    /\ Seg3to2 = "Steady" /\ Seg2to1 = "Steady" /\ Seg1toNow = "Steady"
    /\ ret.overall_trend = "Rising"

\* C7 as stated: for hPa, kPa and inHg, current_pressure_display differs from
\* the current reading by at most 0.05, 0.005 and 0.0005.
C7_RoundTrip ==
    (Calculated /\ args.unit \in {"hPa", "kPa", "inHg"}) =>
        RoundTripError <= Tolerance

\* C7 as amended: the difference is at most the tolerance plus |v| / 10^6,
\* the drift of HPA_TO_INHG * INHG_TO_MB = 1.000000967 away from 1.
C7_RoundTripDrift ==
    (Calculated /\ args.unit \in {"hPa", "kPa", "inHg"}) =>
        RoundTripError - Tolerance <= Abs(args.current_pressure) \div 10 ^ 6

\* C7, its case: a kPa reading the drift carries past the tolerance
C7_Witness ==
    /\ Calculated
    /\ args.unit = "kPa"
    /\ RoundTripError > Tolerance

\* C8 as stated: 3h->2h Rising, 2h->1h Falling and a negative net change from
\* the 3-hours-ago to the 1-hour-ago reading give first_period_trend Falling.
C8_NetNegativeFalling ==
    (Calculated /\ Seg3to2 = "Rising" /\ Seg2to1 = "Falling"
        /\ Lt(PastInHg[1], PastInHg[3])) =>
        locals.first_period_trend = "Falling"

\* C8 as amended: with these segments first_period_trend is Falling when the
\* net change is below -0.01 inHg, and Steady when it is in [-0.01, 0).
C8_NetBeyondThreshold ==
    (Calculated /\ Seg3to2 = "Rising" /\ Seg2to1 = "Falling"
        /\ Lt(PastInHg[1], PastInHg[3])) =>
        IF Lt(Sub(PastInHg[1], PastInHg[3]), Neg(InHg(DEFAULT_THRESHOLD)))
        THEN locals.first_period_trend = "Falling"
        ELSE locals.first_period_trend = "Steady"

\* C8, its case: Rising then Falling with a net change below -0.01 inHg
C8_Witness ==
    /\ Calculated
    /\ Seg3to2 = "Rising" /\ Seg2to1 = "Falling"
    /\ Lt(Sub(PastInHg[1], PastInHg[3]), Neg(InHg(DEFAULT_THRESHOLD)))
    /\ locals.first_period_trend = "Falling"

\* C9: the three segments classify the inHg-normalized steps against 0.01;
\* first_period_trend is the shared segment value, else the non-Steady
\* one of the two, else determine_trend(p_3h, p_1h); second_period_trend is
\* the 1h->now segment; the description is "<first> then <second>".
C9_Reduction ==
    Calculated =>
        /\ Seg3to2 = StepTrend(args.past_pressures[2] - args.past_pressures[3],
                               PastFactor)
        /\ Seg2to1 = StepTrend(args.past_pressures[1] - args.past_pressures[2],
                               PastFactor)
        /\ CurrentFactor = PastFactor =>
               Seg1toNow = StepTrend(args.current_pressure - args.past_pressures[1],
                                     PastFactor)
        /\ Seg3to2 = Seg2to1 => locals.first_period_trend = Seg3to2
        /\ (Seg3to2 = "Steady" /\ Seg2to1 # "Steady") =>
               locals.first_period_trend = Seg2to1
        /\ (Seg2to1 = "Steady" /\ Seg3to2 # "Steady") =>
               locals.first_period_trend = Seg3to2
        /\ (Seg3to2 # "Steady" /\ Seg2to1 # "Steady" /\ Seg3to2 # Seg2to1) =>
               locals.first_period_trend =
                   StepTrend(args.past_pressures[1] - args.past_pressures[3],
                             PastFactor)
        /\ locals.second_period_trend = Seg1toNow
        /\ ret.tendency_description =
               locals.first_period_trend \o " then " \o locals.second_period_trend

\* C9, its case: only the 3h->2h segment is Steady
C9_Witness ==
    /\ Calculated
    /\ Seg3to2 = "Steady" /\ Seg2to1 = "Falling" /\ Seg1toNow = "Rising"
    /\ ret.tendency_description = "Falling then Rising"

\* C10: a Rising first_period_trend has the 1-hour-ago reading strictly above
\* the 3-hours-ago one, a Falling one strictly below (inHg-normalized).
C10_FirstPeriodSign ==
    Calculated =>
        /\ locals.first_period_trend = "Rising" => Gt(PastInHg[1], PastInHg[3])
        /\ locals.first_period_trend = "Falling" => Lt(PastInHg[1], PastInHg[3])

\* C10, its case: outside the disagreement branch, a Steady dip then a rise
C10_Witness ==
    /\ Calculated
    /\ Seg3to2 = "Steady" /\ Lt(PastInHg[2], PastInHg[3])
    /\ Seg2to1 = "Rising"
    /\ locals.first_period_trend = "Rising"

=============================================================================
